---- MODULE Spec2Model ----
(***************************************************************************)
(* oxhook: topic registry, subscriber resolution, event dispatch, secrets, *)
(* event records, health, topic reconciliation and bulk operations.        *)
(* A state-machine model of src/oxhook/registry.py, src/oxhook/signals.py, *)
(* src/oxhook/api/services.py, src/oxhook/api/controllers.py and           *)
(* src/oxhook/management/commands/populate_webhook_topics.py.              *)
(***************************************************************************)
EXTENDS Integers, Sequences, FiniteSets, TLC

VARIABLES
    TOPIC_REGISTRY,  \* registry.py: topic name -> handler
    MODE,            \* settings: 'LIVE' schedules jobs, anything else prints
    USE_CACHE,       \* settings: subscriber resolution goes through the cache
    webhooks,        \* store: Webhook rows, id -> [uuid, url, active, topics]
    topicCatalog,    \* store: WebhookTopic rows (names)
    now,             \* timezone.now(), seconds
    cacheStore,      \* entries of @cache(ttl=...) on _query_webhooks_cached
    last,            \* the most recent call and how it ended
    scheduled,       \* what that call handed to task_fire_webhook.delay, in order
    printed,         \* what that call printed in console mode, in order
    secrets,         \* store: WebhookSecret rows
    nextSecretId,    \* store: next primary key of WebhookSecret
    tokensDrawn,     \* how many tokens secrets.token_urlsafe has produced
    pc,              \* per request thread: position inside generate_secret
    req,             \* per request thread: the webhook and token of its call
    events,          \* store: WebhookEvent rows
    EVENTS_RETENTION_DAYS,  \* settings: retention used when cleanup is given no days
    delayFailsAt,    \* broker: 0, or k when the k-th delay() of a dispatch raises
    changedAt        \* per webhook: when update_webhook last changed its active
                     \* flag or its topics

vars == <<TOPIC_REGISTRY, MODE, USE_CACHE, webhooks, topicCatalog, now,
          cacheStore, last, scheduled, printed, secrets, nextSecretId, tokensDrawn, pc, req,
          events, EVENTS_RETENTION_DAYS, delayFailsAt, changedAt>>

secretVars == <<secrets, nextSecretId, tokensDrawn, pc, req>>

eventVars == <<events, EVENTS_RETENTION_DAYS>>

(***************************************************************************)
(* Bounds of the model.                                                    *)
(***************************************************************************)
MaxTicks == 4
TickLen == 30
MaxTokens == 4
MaxDays == 2
MaxSuccess == 20
MaxFailed == 2
MaxBatch == 2

(***************************************************************************)
(* Python values that cross the dispatch path.                             *)
(***************************************************************************)
None == [kind |-> "None"]
PyStr(s) == [kind |-> "str", s |-> s]
PyInt(n) == [kind |-> "int", n |-> n]
PyFloat(n) == [kind |-> "float", whole |-> n]
PyDict(items) == [kind |-> "dict", items |-> items]
PyUUID(hex) == [kind |-> "UUID", hex |-> hex]
PyRow(id, uuid) == [kind |-> "tuple", id |-> id, uuid |-> uuid]

HasKey(d, k) == \E i \in 1..Len(d.items) : d.items[i][1] = k
GetItem(d, k) == d.items[CHOOSE i \in 1..Len(d.items) : d.items[i][1] = k][2]

\* str(uuid)
StrOfUUID(u) == u.hex

(***************************************************************************)
(* json.dumps: the text is a sequence of tokens.                           *)
(***************************************************************************)
Digit == <<"0", "1", "2", "3", "4", "5", "6", "7", "8", "9">>

RECURSIVE DigitsOf(_)
DigitsOf(n) ==
    IF n < 10 THEN <<Digit[n + 1]>>
    ELSE DigitsOf(n \div 10) \o <<Digit[(n % 10) + 1]>>

RECURSIVE json_dumps(_, _)
RECURSIVE json_dumps_items(_, _, _)
json_dumps_items(items, i, indent) ==
    IF i > Len(items) THEN <<>>
    ELSE (IF indent THEN <<"\n">> ELSE <<>>)
         \o <<"\"", items[i][1], "\"", ":">>
         \o json_dumps(items[i][2], indent)
         \o (IF i < Len(items) THEN <<",">> ELSE <<>>)
         \o json_dumps_items(items, i + 1, indent)

json_dumps(v, indent) ==
    CASE v.kind = "None" -> <<"null">>
      [] v.kind = "str" -> <<"\"", v.s, "\"">>
      [] v.kind = "int" -> DigitsOf(v.n)
      [] v.kind = "float" -> DigitsOf(v.whole) \o <<".", "0">>
      [] v.kind = "dict" ->
            <<"{">> \o json_dumps_items(v.items, 1, indent)
            \o (IF indent /\ Len(v.items) > 0 THEN <<"\n">> ELSE <<>>) \o <<"}">>

(***************************************************************************)
(* Names, identities and inputs.                                           *)
(***************************************************************************)
WebhookIds == {1, 2}
UuidOf == <<"uuid-1", "uuid-2">>
AllUuids == {"uuid-1", "uuid-2", "uuid-9"}          \* uuid-9 names no webhook
TopicNames == {"order.created", "order.echo", "ghost.topic"}
RegisteredAtStartup == {"order.created", "order.echo"}
DataValues == {None, PyInt(5), PyDict(<< <<"id", PyInt(7)>>, <<"note", PyStr("x")>> >>)}
\* webhook_id: UUID | str | None
TargetValues == {None, PyUUID("uuid-1"), PyUUID("uuid-9"), PyStr("uuid-1")}

(***************************************************************************)
(* Handlers bound by the host application.                                 *)
(***************************************************************************)
Returned(v) == [exc |-> "", val |-> v]
Raised(e) == [exc |-> e, val |-> None]

\* data -> {"id": data["id"]}
pick_id(data) ==
    IF data.kind # "dict" THEN Raised("TypeError")
    ELSE IF ~HasKey(data, "id") THEN Raised("KeyError")
    ELSE Returned(PyDict(<<<<"id", GetItem(data, "id")>>>>))

\* data -> data
echo(data) == Returned(data)

CallHandler(h, data) ==
    CASE h = "pick_id" -> pick_id(data)
      [] h = "echo" -> echo(data)

(***************************************************************************)
(* registry.py                                                             *)
(***************************************************************************)
\* a registry that falls back to a default handler instead of raising
get_handler_lenient(topic) ==
    [exc |-> "",
     handler |-> IF topic \in DOMAIN TOPIC_REGISTRY THEN TOPIC_REGISTRY[topic] ELSE "echo"]

get_handler(topic) ==
    IF topic \in DOMAIN TOPIC_REGISTRY
    THEN [exc |-> "", handler |-> TOPIC_REGISTRY[topic]]
    ELSE [exc |-> "TopicNotFound", handler |-> ""]

(***************************************************************************)
(* signals.py: subscriber resolution.                                      *)
(***************************************************************************)
TTL == 60

ActiveSubscribers(topic) ==
    {w \in DOMAIN webhooks : webhooks[w].active /\ topic \in webhooks[w].topics}

Orderings(S) ==
    {s \in [1..Cardinality(S) -> S] : \A i, j \in 1..Cardinality(S) : s[i] = s[j] => i = j}

\* the query without its active=True filter
query_webhooks_unfiltered(topic) ==
    {[i \in 1..Len(s) |-> PyRow(s[i], PyUUID(webhooks[s[i]].uuid))] :
        s \in Orderings({w \in DOMAIN webhooks : topic \in webhooks[w].topics})}

\* Webhook.objects.filter(active=True, topics__name=topic).values_list("id", "uuid")
\* carries no order_by: every row order is a possible result.  The query runs
\* when the rows are iterated, once per QuerySet.
query_webhooks(topic) ==
    {[i \in 1..Len(s) |-> PyRow(s[i], PyUUID(webhooks[s[i]].uuid))] :
        s \in Orderings(ActiveSubscribers(topic))}

CacheHit(topic) ==
    /\ topic \in DOMAIN cacheStore
    /\ now - cacheStore[topic].stored < TTL

CachePut(topic, rows) ==
    [t \in DOMAIN cacheStore \cup {topic} |->
        IF t = topic THEN [value |-> rows, stored |-> now] ELSE cacheStore[t]]

\* when the entry found for the topic was stored, -1 when there is none
EntryFound(topic) ==
    IF topic \in DOMAIN cacheStore THEN cacheStore[topic].stored ELSE -1

\* a cache whose entries never expire
query_webhooks_cached_forever(topic) ==
    IF topic \in DOMAIN cacheStore
    THEN {[rows |-> cacheStore[topic].value, queried |-> FALSE,
           found |-> EntryFound(topic), cache |-> cacheStore]}
    ELSE {[rows |-> r, queried |-> TRUE, found |-> EntryFound(topic),
           cache |-> CachePut(topic, r)] : r \in query_webhooks(topic)}

\* Each possible outcome: the rows returned, whether the store was queried
\* for them, the entry found in the cache, and the cache afterwards.
query_webhooks_cached(topic) ==
    IF CacheHit(topic)
    THEN {[rows |-> cacheStore[topic].value, queried |-> FALSE,
           found |-> EntryFound(topic), cache |-> cacheStore]}
    ELSE {[rows |-> r, queried |-> TRUE, found |-> EntryFound(topic),
           cache |-> CachePut(topic, r)] : r \in query_webhooks(topic)}

\* resolution that goes through the cache whatever USE_CACHE says
find_webhooks_cached_always(topic) == query_webhooks_cached_forever(topic)

\* resolution that never goes through the cache
find_webhooks_direct(topic) ==
    {[rows |-> r, queried |-> TRUE, found |-> -1, cache |-> cacheStore] :
        r \in query_webhooks(topic)}

find_webhooks(topic) ==
    IF USE_CACHE
    THEN query_webhooks_cached(topic)
    ELSE {[rows |-> r, queried |-> TRUE, found |-> -1, cache |-> cacheStore] :
            r \in query_webhooks(topic)}

(***************************************************************************)
(* signals.py: handle_fire_webhook.                                        *)
(***************************************************************************)
ValidPayloadKinds == {"str", "dict", "None"}

\* an envelope built without its object field
payload_dict_no_object(payload_body, topic, uuid) ==
    PyDict(<< <<"topic", PyStr(topic)>>,
              <<"timestamp", PyFloat(now)>>,
              <<"webhook_uuid", PyStr(StrOfUUID(uuid))>> >>)

payload_dict(payload_body, topic, uuid) ==
    PyDict(<< <<"object", payload_body>>,
              <<"topic", PyStr(topic)>>,
              <<"timestamp", PyFloat(now)>>,
              <<"webhook_uuid", PyStr(StrOfUUID(uuid))>> >>)

\* what is handed to task_fire_webhook.delay
DeliveryPayload(payload_body, topic, uuid) == json_dumps(payload_body, FALSE)

\* "for id, uuid in webhook_ids" unpacks each element into two names: a row
\* of values_list does, a UUID is not iterable (TypeError) and the text of a
\* UUID has 36 characters (ValueError).
Unpacks(e) == e.kind = "tuple"
UnpackError(e) == IF e.kind = "UUID" THEN "TypeError" ELSE "ValueError"

FirstBad(rows) ==
    IF \E i \in 1..Len(rows) : ~Unpacks(rows[i])
    THEN CHOOSE i \in 1..Len(rows) :
            /\ ~Unpacks(rows[i])
            /\ \A j \in 1..(i - 1) : Unpacks(rows[j])
    ELSE Len(rows) + 1

\* task_fire_webhook.delay hands the job to the broker; when the broker cannot
\* be reached it raises (kombu OperationalError).  The position of the delay()
\* call that raises in this dispatch, 0 when none does.
DelayRaisesAt(rows) ==
    IF MODE = "LIVE" /\ delayFailsAt \in 1..(FirstBad(rows) - 1)
    THEN delayFailsAt
    ELSE 0

\* the for loop over webhook_ids: what it schedules or prints before it ends
\* or raises
DeliverLoop(topic, payload_body, res) ==
    LET bad == FirstBad(res.rows)
        refused == DelayRaisesAt(res.rows)
        done == SubSeq(res.rows, 1, (IF refused > 0 THEN refused ELSE bad) - 1)
    IN  [exc |-> IF refused > 0 THEN "OperationalError"
                 ELSE IF bad <= Len(res.rows) THEN UnpackError(res.rows[bad]) ELSE "",
         newJobs |-> IF MODE = "LIVE"
                     THEN [i \in 1..Len(done) |->
                            [id |-> done[i].id,
                             payload |-> DeliveryPayload(payload_body, topic, done[i].uuid),
                             topic |-> topic]]
                     ELSE <<>>,
         printed |-> IF MODE = "LIVE"
                     THEN <<>>
                     ELSE [i \in 1..Len(done) |->
                            [topic |-> topic,
                             uuid |-> StrOfUUID(done[i].uuid),
                             timestamp |-> now,
                             text |-> json_dumps(payload_dict(payload_body, topic, done[i].uuid), TRUE)]],
         lookup |-> res.viaStore,
         queried |-> res.queried,
         found |-> res.found,
         cache |-> res.cache]

Failed(e) ==
    [exc |-> e, newJobs |-> <<>>, printed |-> <<>>, lookup |-> FALSE,
     queried |-> FALSE, found |-> -1, cache |-> cacheStore]

\* the possible outcomes of one call of the receiver
handle_fire_webhook(topic, data, webhook_id) ==
    LET h == get_handler(topic) IN
    IF h.exc # "" THEN {Failed(h.exc)}
    ELSE
    LET r == CallHandler(h.handler, data) IN
    IF r.exc # "" THEN {Failed(r.exc)}
    ELSE IF r.val.kind \notin ValidPayloadKinds THEN {Failed("InvalidPayloadType")}
    ELSE
    LET webhook_ids ==
            IF webhook_id # None
            THEN {[rows |-> <<webhook_id>>, queried |-> FALSE, found |-> -1,
                   cache |-> cacheStore, viaStore |-> FALSE]}
            ELSE {[rows |-> x.rows, queried |-> x.queried, found |-> x.found,
                   cache |-> x.cache, viaStore |-> TRUE] : x \in find_webhooks(topic)}
    IN  {DeliverLoop(topic, r.val, res) : res \in webhook_ids}

(***************************************************************************)
(* The record of the most recent call.                                     *)
(***************************************************************************)
Call(op, topic, data, target, result, err, lookup, queried, found) ==
    [op |-> op, topic |-> topic, data |-> data, target |-> target,
     result |-> result, err |-> err, lookup |-> lookup, queried |-> queried,
     found |-> found, at |-> now]

NoCall == Call("", "", None, None, "", "", FALSE, FALSE, -1)

(***************************************************************************)
(* services.py: WebhookEventService.fire_webhook_event.                    *)
(* get_handler raising TopicNotFound becomes ValidationError; the signal   *)
(* is sent with send_robust, which catches what the receiver raises and    *)
(* returns it in its response list, which is not looked at.                *)
(***************************************************************************)
\* the possible outcomes of one call: how it ends for its caller, and what the
\* receiver did
fire_webhook_event(topic, data, webhook_id) ==
    IF get_handler(topic).exc = "TopicNotFound"
    THEN {[result |-> "ValidationError", o |-> Failed("")]}
    ELSE {[result |-> "returned", o |-> x] :
            x \in handle_fire_webhook(topic, data, webhook_id)}

\* a dispatch that also records a pending event for each job it schedules
FireWebhookEvent_recording(topic, data, webhook_id) ==
    /\ \E r \in fire_webhook_event(topic, data, webhook_id) :
            /\ scheduled' = r.o.newJobs
            /\ printed' = r.o.printed
            /\ cacheStore' = r.o.cache
            /\ events' = events \cup
                    {[id |-> 100 + i, webhook |-> r.o.newJobs[i].id, topic |-> topic,
                      object |-> data, status |-> "PENDING", created |-> now] :
                        i \in 1..Len(r.o.newJobs)}
            /\ last' = Call("fire_webhook_event", topic, data, webhook_id,
                            r.result, r.o.exc, r.o.lookup, r.o.queried, r.o.found)
    /\ UNCHANGED <<TOPIC_REGISTRY, MODE, USE_CACHE, webhooks, topicCatalog, now>>
    /\ UNCHANGED secretVars
    /\ UNCHANGED <<EVENTS_RETENTION_DAYS, delayFailsAt, changedAt>>

FireWebhookEvent(topic, data, webhook_id) ==
    /\ \E r \in fire_webhook_event(topic, data, webhook_id) :
            /\ scheduled' = r.o.newJobs
            /\ printed' = r.o.printed
            /\ cacheStore' = r.o.cache
            /\ last' = Call("fire_webhook_event", topic, data, webhook_id,
                            r.result, r.o.exc, r.o.lookup, r.o.queried, r.o.found)
    /\ UNCHANGED <<TOPIC_REGISTRY, MODE, USE_CACHE, webhooks, topicCatalog, now>>
    /\ UNCHANGED secretVars
    /\ UNCHANGED <<eventVars, delayFailsAt, changedAt>>

(***************************************************************************)
(* services.py: WebhookService.update_webhook and validate_topics.         *)
(***************************************************************************)
\* an optional argument: left at None, or given
Given(v) == [given |-> TRUE, value |-> v]
NoUrl == [given |-> FALSE, value |-> ""]
NoTopics == [given |-> FALSE, value |-> {}]
NoActive == [given |-> FALSE, value |-> FALSE]

validate_topics(topics) == topics \ DOMAIN TOPIC_REGISTRY = {}

\* get_object_or_404(Webhook, uuid=webhook_id) over the rows ws
WebhookByUuid(ws, uuid) == {w \in DOMAIN ws : ws[w].uuid = uuid}

\* an update that saves url and active before it validates the topics
update_webhook_saving_first(ws, webhook_id, url, topics, active) ==
    IF WebhookByUuid(ws, webhook_id) = {}
    THEN [result |-> "Http404", webhooks |-> ws]
    ELSE LET w == CHOOSE x \in WebhookByUuid(ws, webhook_id) : TRUE
             saved == [ws EXCEPT ![w] =
                    [uuid |-> @.uuid,
                     url |-> IF url.given THEN url.value ELSE @.url,
                     active |-> IF active.given THEN active.value ELSE @.active,
                     topics |-> @.topics]]
         IN
         IF topics.given /\ ~validate_topics(topics.value)
         THEN [result |-> "ValidationError", webhooks |-> saved]
         ELSE [result |-> "returned",
               webhooks |-> [saved EXCEPT ![w].topics =
                                IF topics.given
                                THEN topics.value \cap topicCatalog
                                ELSE @]]

\* how the call ends and the Webhook rows it leaves, starting from the rows ws
update_webhook(ws, webhook_id, url, topics, active) ==
    IF WebhookByUuid(ws, webhook_id) = {}
    THEN [result |-> "Http404", webhooks |-> ws]
    ELSE LET w == CHOOSE x \in WebhookByUuid(ws, webhook_id) : TRUE IN
         IF topics.given /\ ~validate_topics(topics.value)
         THEN [result |-> "ValidationError", webhooks |-> ws]
         ELSE [result |-> "returned",
               webhooks |-> [ws EXCEPT ![w] =
                    [uuid |-> @.uuid,
                     url |-> IF url.given THEN url.value ELSE @.url,
                     active |-> IF active.given THEN active.value ELSE @.active,
                     topics |-> IF topics.given
                                THEN topics.value \cap topicCatalog
                                ELSE @.topics]]]

\* the time of the last change of each webhook's active flag or topics, after
\* the rows went from ws to new
ChangeTimes(ws, new) ==
    [w \in DOMAIN changedAt |->
        IF w \in DOMAIN ws /\ w \in DOMAIN new
           /\ (ws[w].active # new[w].active \/ ws[w].topics # new[w].topics)
        THEN now
        ELSE changedAt[w]]

UpdateWebhook(webhook_id, url, topics, active) ==
    /\ LET r == update_webhook(webhooks, webhook_id, url, topics, active) IN
            /\ webhooks' = r.webhooks
            /\ changedAt' = ChangeTimes(webhooks, r.webhooks)
            /\ last' = Call("update_webhook", "", None, PyUUID(webhook_id), r.result,
                            "", FALSE, FALSE, -1)
    /\ scheduled' = <<>>
    /\ printed' = <<>>
    /\ UNCHANGED <<TOPIC_REGISTRY, MODE, USE_CACHE, topicCatalog, now, cacheStore>>
    /\ UNCHANGED secretVars
    /\ UNCHANGED <<eventVars, delayFailsAt>>

(***************************************************************************)
(* The dispatch specification: the registry as the host application's      *)
(* modules left it at import, two webhooks in the store.                   *)
(***************************************************************************)
EmptyCache == [t \in {} |-> 0]

HandlerAtStartup(t) == IF t = "order.created" THEN "pick_id" ELSE "echo"

Threads == {"t1", "t2"}
NoRequest == [op |-> "", webhook |-> 0, token |-> 0]

\* no event rows, the default retention, a broker that takes every job
InitEvents ==
    /\ events = {}
    /\ EVENTS_RETENTION_DAYS = 30
    /\ delayFailsAt = 0
    /\ changedAt = [w \in WebhookIds |-> 0]

InitSecrets ==
    /\ secrets = {}
    /\ nextSecretId = 1
    /\ tokensDrawn = 0
    /\ pc = [p \in Threads |-> "idle"]
    /\ req = [p \in Threads |-> NoRequest]

InitDispatch ==
    /\ TOPIC_REGISTRY = [t \in RegisteredAtStartup |-> HandlerAtStartup(t)]
    /\ MODE \in {"LIVE", "CONSOLE"}
    /\ USE_CACHE \in BOOLEAN
    /\ webhooks = [w \in WebhookIds |->
                    [uuid |-> UuidOf[w], url |-> "https://a.example",
                     active |-> TRUE, topics |-> {}]]
    /\ topicCatalog = RegisteredAtStartup
    /\ now = 0
    /\ cacheStore = EmptyCache
    /\ last = NoCall
    /\ scheduled = <<>>
    /\ printed = <<>>
    /\ InitEvents

Init == InitDispatch /\ InitSecrets

UpdateInputs ==
    {<<NoTopics, Given(TRUE)>>, <<NoTopics, Given(FALSE)>>}
    \cup {<<Given(S), NoActive>> :
            S \in {{}, {"order.created"}, {"order.created", "order.echo"}}}
    \cup {<<Given({"order.created", "ghost.topic"}), Given(FALSE)>>}

Next ==
    \/ \E t \in TopicNames, d \in DataValues, id \in TargetValues :
            FireWebhookEvent(t, d, id)
    \/ \E u \in AllUuids, in \in UpdateInputs :
            UpdateWebhook(u, NoUrl, in[1], in[2])

Spec == Init /\ [][Next]_vars

(***************************************************************************)
(* services.py: WebhookSecretService.  generate_secret draws a token, then *)
(* deletes the webhook's secrets, then creates the new one: two statements *)
(* against the store, with no transaction of its own around them.          *)
(* secrets.token_urlsafe is taken to never repeat a token: the n-th token  *)
(* drawn is the number n.                                                  *)
(***************************************************************************)
SecretCall(op, webhook, token, result, secret, valid) ==
    [op |-> op, webhook |-> webhook, token |-> token, result |-> result,
     secret |-> secret, valid |-> valid]

SecretsOf(webhook) == {s \in secrets : s.webhook = webhook}

\* old secrets left in place
DeleteSecretsOf_nothing(webhook) == secrets

\* webhook.secrets.all().delete(): the rows left in the table
DeleteSecretsOf(webhook) == secrets \ SecretsOf(webhook)

\* WebhookSecret.objects.first(): the first secret of the table, whosever it is
get_active_secret_of_any(webhook) ==
    IF secrets = {}
    THEN [id |-> 0, webhook |-> webhook, token |-> 0]
    ELSE CHOOSE s \in secrets : \A o \in secrets : s.id <= o.id

\* webhook.secrets.first(): the row of lowest primary key, or None (token 0)
get_active_secret(webhook) ==
    IF SecretsOf(webhook) = {}
    THEN [id |-> 0, webhook |-> webhook, token |-> 0]
    ELSE CHOOSE s \in SecretsOf(webhook) : \A o \in SecretsOf(webhook) : s.id <= o.id

\* secrets.compare_digest(active_secret.token, provided_token)
validate_secret(webhook, provided_token) ==
    LET active_secret == get_active_secret(webhook) IN
    IF active_secret.id = 0 THEN FALSE
    ELSE active_secret.token = provided_token

\* generate_secret / rotate_secret, line 143: token = secrets.token_urlsafe(length)
GenerateBegin(p, op, webhook) ==
    /\ pc[p] = "idle"
    /\ tokensDrawn < MaxTokens
    /\ tokensDrawn' = tokensDrawn + 1
    /\ req' = [req EXCEPT ![p] = [op |-> op, webhook |-> webhook,
                                  token |-> tokensDrawn + 1]]
    /\ pc' = [pc EXCEPT ![p] = "delete"]
    /\ last' = SecretCall(op, webhook, tokensDrawn + 1, "running", 0, FALSE)
    /\ UNCHANGED <<secrets, nextSecretId>>
    /\ UNCHANGED <<TOPIC_REGISTRY, MODE, USE_CACHE, webhooks, topicCatalog, now,
                   cacheStore, scheduled, printed>>
    /\ UNCHANGED <<eventVars, delayFailsAt, changedAt>>

\* line 146: webhook.secrets.all().delete()
GenerateDelete(p) ==
    /\ pc[p] = "delete"
    /\ secrets' = DeleteSecretsOf(req[p].webhook)
    /\ pc' = [pc EXCEPT ![p] = "create"]
    /\ UNCHANGED <<nextSecretId, tokensDrawn, req, last>>
    /\ UNCHANGED <<TOPIC_REGISTRY, MODE, USE_CACHE, webhooks, topicCatalog, now,
                   cacheStore, scheduled, printed>>
    /\ UNCHANGED <<eventVars, delayFailsAt, changedAt>>

\* lines 148-154: WebhookSecret.objects.create(webhook=webhook, token=token)
GenerateCreate(p) ==
    /\ pc[p] = "create"
    /\ secrets' = secrets \cup {[id |-> nextSecretId, webhook |-> req[p].webhook,
                                 token |-> req[p].token]}
    /\ nextSecretId' = nextSecretId + 1
    /\ pc' = [pc EXCEPT ![p] = "idle"]
    /\ req' = [req EXCEPT ![p] = NoRequest]
    /\ last' = SecretCall(req[p].op, req[p].webhook, req[p].token, "returned",
                          req[p].token, FALSE)
    /\ UNCHANGED tokensDrawn
    /\ UNCHANGED <<TOPIC_REGISTRY, MODE, USE_CACHE, webhooks, topicCatalog, now,
                   cacheStore, scheduled, printed>>
    /\ UNCHANGED <<eventVars, delayFailsAt, changedAt>>

GetActiveSecret(p, webhook) ==
    /\ pc[p] = "idle"
    /\ last' = SecretCall("get_active_secret", webhook, 0, "returned",
                          get_active_secret(webhook).token, FALSE)
    /\ UNCHANGED <<secrets, nextSecretId, tokensDrawn, pc, req>>
    /\ UNCHANGED <<TOPIC_REGISTRY, MODE, USE_CACHE, webhooks, topicCatalog, now,
                   cacheStore, scheduled, printed>>
    /\ UNCHANGED <<eventVars, delayFailsAt, changedAt>>

ValidateSecret(p, webhook, provided_token) ==
    /\ pc[p] = "idle"
    /\ last' = SecretCall("validate_secret", webhook, provided_token, "returned",
                          0, validate_secret(webhook, provided_token))
    /\ UNCHANGED <<secrets, nextSecretId, tokensDrawn, pc, req>>
    /\ UNCHANGED <<TOPIC_REGISTRY, MODE, USE_CACHE, webhooks, topicCatalog, now,
                   cacheStore, scheduled, printed>>
    /\ UNCHANGED <<eventVars, delayFailsAt, changedAt>>

InitStore ==
    /\ TOPIC_REGISTRY = [t \in RegisteredAtStartup |-> HandlerAtStartup(t)]
    /\ MODE = "LIVE"
    /\ USE_CACHE = FALSE
    /\ webhooks = [w \in WebhookIds |->
                    [uuid |-> UuidOf[w], url |-> "https://a.example",
                     active |-> TRUE, topics |-> {}]]
    /\ topicCatalog = RegisteredAtStartup
    /\ now = 0
    /\ cacheStore = EmptyCache
    /\ scheduled = <<>>
    /\ printed = <<>>
    /\ InitEvents

(***************************************************************************)
(* Calls of the secret service one after another: a call starts and moves  *)
(* only while no other thread is inside a call.                            *)
(***************************************************************************)
InitSecretSeq ==
    /\ InitStore
    /\ InitSecrets
    /\ last = SecretCall("", 0, 0, "", 0, FALSE)

NoOverlap(p) == \A q \in Threads \ {p} : pc[q] = "idle"
SecretOps == {"generate_secret", "rotate_secret"}

NextSecretSeq ==
    \/ \E p \in Threads, op \in SecretOps, w \in WebhookIds :
            NoOverlap(p) /\ GenerateBegin(p, op, w)
    \/ \E p \in Threads : NoOverlap(p) /\ GenerateDelete(p)
    \/ \E p \in Threads : NoOverlap(p) /\ GenerateCreate(p)
    \/ \E p \in Threads, w \in WebhookIds : NoOverlap(p) /\ GetActiveSecret(p, w)
    \/ \E p \in Threads, w \in WebhookIds, t \in 0..MaxTokens :
            NoOverlap(p) /\ ValidateSecret(p, w, t)

SpecSecretSeq == InitSecretSeq /\ [][NextSecretSeq]_vars

(***************************************************************************)
(* Calls of the secret service from concurrent request threads, for        *)
(* webhooks that each hold the secret create_webhook gave them.            *)
(***************************************************************************)
InitSecretConc ==
    /\ InitStore
    /\ secrets = {[id |-> w, webhook |-> w, token |-> w] : w \in WebhookIds}
    /\ nextSecretId = Cardinality(WebhookIds) + 1
    /\ tokensDrawn = Cardinality(WebhookIds)
    /\ pc = [p \in Threads |-> "idle"]
    /\ req = [p \in Threads |-> NoRequest]
    /\ last = SecretCall("", 0, 0, "", 0, FALSE)

NextSecretConc ==
    \/ \E p \in Threads, op \in SecretOps, w \in WebhookIds : GenerateBegin(p, op, w)
    \/ \E p \in Threads : GenerateDelete(p)
    \/ \E p \in Threads : GenerateCreate(p)
    \/ \E p \in Threads, w \in WebhookIds : GetActiveSecret(p, w)
    \/ \E p \in Threads, w \in WebhookIds, t \in 0..MaxTokens : ValidateSecret(p, w, t)

SpecSecretConc == InitSecretConc /\ [][NextSecretConc]_vars

(***************************************************************************)
(* Properties of the secret service.                                       *)
(***************************************************************************)
IsGenerate == last.op \in {"generate_secret", "rotate_secret"}

\* C7: after the N-th of N >= 1 consecutive generate_secret / rotate_secret
\* calls for a webhook, the webhook has exactly one stored secret,
\* get_active_secret returns it, and its token is the token that call returned.
C7_OneSecretAfterGenerate ==
    (IsGenerate /\ last.result = "returned") =>
        /\ Cardinality({s \in secrets : s.webhook = last.webhook}) = 1
        /\ get_active_secret(last.webhook) \in secrets
        /\ get_active_secret(last.webhook).token = last.secret
        /\ last.secret = last.token

C7_Witness ==
    /\ IsGenerate /\ last.result = "returned"
    /\ last.op = "rotate_secret"
    /\ \E s \in secrets : s.webhook = last.webhook /\ s.id >= 3

\* C8: for a webhook that already has a secret, every reachable state of every
\* interleaving of generate_secret / rotate_secret calls and readers holds
\* exactly one stored secret for it.
C8_AlwaysExactlyOneSecret ==
    \A w \in WebhookIds : Cardinality({s \in secrets : s.webhook = w}) = 1

\* C9: validate_secret(webhook, token) is true iff the webhook has a stored
\* secret and token is its token: false when it has none, and false for a
\* token that an earlier generate_secret issued and a later one replaced.
C9_ValidateIffActiveToken ==
    (last.op = "validate_secret" /\ last.result = "returned") =>
        (last.valid <=>
            \E s \in secrets : s.webhook = last.webhook /\ s.token = last.token)

C9_Witness ==
    /\ last.op = "validate_secret"
    /\ ~last.valid
    /\ last.token >= 1
    /\ \A s \in secrets : s.webhook = last.webhook /\ s.token > last.token
    /\ secrets # {}

(***************************************************************************)
(* Subscriber resolution over time: broadcasts of the bound topics while   *)
(* the clock advances and webhooks are switched on and off.                *)
(***************************************************************************)
\* time passes
Tick ==
    /\ now + TickLen <= MaxTicks * TickLen
    /\ now' = now + TickLen
    /\ UNCHANGED <<TOPIC_REGISTRY, MODE, USE_CACHE, webhooks, topicCatalog,
                   cacheStore, last, scheduled, printed>>
    /\ UNCHANGED secretVars
    /\ UNCHANGED <<eventVars, delayFailsAt, changedAt>>

SubscribedAtStart(w) ==
    IF w = 1 THEN {"order.created", "order.echo"} ELSE {"order.created"}

InitCache ==
    /\ TOPIC_REGISTRY = [t \in RegisteredAtStartup |-> HandlerAtStartup(t)]
    /\ MODE = "LIVE"
    /\ USE_CACHE \in BOOLEAN
    /\ webhooks = [w \in WebhookIds |->
                    [uuid |-> UuidOf[w], url |-> "https://a.example",
                     active |-> TRUE, topics |-> SubscribedAtStart(w)]]
    /\ topicCatalog = RegisteredAtStartup
    /\ now = 0
    /\ cacheStore = EmptyCache
    /\ last = NoCall
    /\ scheduled = <<>>
    /\ printed = <<>>
    /\ InitSecrets
    /\ InitEvents

OrderPlaced == PyDict(<< <<"id", PyInt(7)>>, <<"note", PyStr("x")>> >>)

NextCache ==
    \/ \E t \in RegisteredAtStartup : FireWebhookEvent(t, OrderPlaced, None)
    \/ \E u \in {"uuid-1", "uuid-2"}, a \in {Given(TRUE), Given(FALSE)} :
            UpdateWebhook(u, NoUrl, NoTopics, a)
    \/ Tick

SpecCache == InitCache /\ [][NextCache]_vars

(***************************************************************************)
(* Staleness of cached resolution: live broadcasts of one topic with       *)
(* caching on, while the clock advances and webhooks are switched on and   *)
(* off, subscribed and unsubscribed.                                       *)
(***************************************************************************)
InitStale ==
    /\ InitCache
    /\ USE_CACHE

\* switching a webhook on or off, subscribing it or unsubscribing it
StaleUpdateInputs ==
    {<<NoTopics, Given(TRUE)>>, <<NoTopics, Given(FALSE)>>,
     <<Given({}), NoActive>>, <<Given({"order.created"}), NoActive>>}

NextStale ==
    \/ FireWebhookEvent("order.created", OrderPlaced, None)
    \/ \E u \in {"uuid-1", "uuid-2"}, in \in StaleUpdateInputs :
            UpdateWebhook(u, NoUrl, in[1], in[2])
    \/ Tick

SpecStale == InitStale /\ [][NextStale]_vars

(***************************************************************************)
(* Scheduling against a broker that can be lost: live broadcasts with      *)
(* caching off, while webhooks are switched on and off and the broker's    *)
(* connection comes and goes.                                              *)
(***************************************************************************)
\* the broker's connection changes: from now on every delay() is accepted
\* (k = 0) or the k-th delay() of a dispatch raises
BrokerFault(k) ==
    /\ delayFailsAt # k
    /\ delayFailsAt' = k
    /\ UNCHANGED <<TOPIC_REGISTRY, MODE, USE_CACHE, webhooks, topicCatalog, now,
                   cacheStore, last, scheduled, printed>>
    /\ UNCHANGED secretVars
    /\ UNCHANGED <<eventVars, changedAt>>

InitBroker ==
    /\ InitCache
    /\ ~USE_CACHE

NextBroker ==
    \/ \E t \in RegisteredAtStartup, d \in DataValues : FireWebhookEvent(t, d, None)
    \/ \E u \in {"uuid-1", "uuid-2"}, a \in {Given(TRUE), Given(FALSE)} :
            UpdateWebhook(u, NoUrl, NoTopics, a)
    \/ \E k \in 0..Cardinality(WebhookIds) : BrokerFault(k)

SpecBroker == InitBroker /\ [][NextBroker]_vars

(***************************************************************************)
(* services.py: WebhookEventService.retry_failed_event and                 *)
(* cleanup_old_events, over the WebhookEvent rows the delivery worker      *)
(* left in the store.                                                      *)
(***************************************************************************)
\* timedelta(days=1), in seconds
Day == 86400

\* a WebhookEvent row; webhook is the id of its webhook, 0 when it has none
WebhookEvent(id, webhook, topic, object, status, created) ==
    [id |-> id, webhook |-> webhook, topic |-> topic, object |-> object,
     status |-> status, created |-> created]

\* WebhookEvent.objects.get(id=event_id)
EventById(event_id) == {e \in events : e.id = event_id}

\* the call raised ValidationError before it dispatched anything
RetryRefused ==
    [result |-> "ValidationError", value |-> FALSE, dispatched |-> FALSE,
     o |-> Failed("")]

\* the call handed the event to fire_webhook_event, which ended as r
RetryDispatched(r) ==
    [result |-> r.result, value |-> r.result = "returned", dispatched |-> TRUE,
     o |-> r.o]

\* a retry that does not look at the event's status
retry_failed_event_any_status(event_id) ==
    IF EventById(event_id) = {} THEN {RetryRefused}
    ELSE
    LET event == CHOOSE e \in EventById(event_id) : TRUE IN
    IF \/ event.webhook \notin DOMAIN webhooks
       \/ ~webhooks[event.webhook].active
    THEN {RetryRefused}
    ELSE {RetryDispatched(r) :
            r \in fire_webhook_event(event.topic, event.object,
                                     PyUUID(webhooks[event.webhook].uuid))}

\* the possible outcomes of one call; an event without a webhook has webhook 0,
\* which is no row of the store
retry_failed_event(event_id) ==
    IF EventById(event_id) = {} THEN {RetryRefused}
    ELSE
    LET event == CHOOSE e \in EventById(event_id) : TRUE IN
    IF event.status # "FAILURE" THEN {RetryRefused}
    ELSE IF \/ event.webhook \notin DOMAIN webhooks
            \/ ~webhooks[event.webhook].active
    THEN {RetryRefused}
    ELSE {RetryDispatched(r) :
            r \in fire_webhook_event(event.topic, event.object,
                                     PyUUID(webhooks[event.webhook].uuid))}

\* a retry that puts the event it re-dispatched back to PENDING
RetryFailedEvent_marking(event_id) ==
    /\ \E r \in retry_failed_event(event_id) :
            /\ scheduled' = r.o.newJobs
            /\ printed' = r.o.printed
            /\ cacheStore' = r.o.cache
            /\ events' = IF r.dispatched
                         THEN {IF e.id = event_id
                               THEN [e EXCEPT !.status = "PENDING"] ELSE e :
                                 e \in events}
                         ELSE events
            /\ last' = [op |-> "retry_failed_event", event |-> event_id,
                        result |-> r.result, value |-> r.value,
                        dispatched |-> r.dispatched, err |-> r.o.exc, at |-> now]
    /\ UNCHANGED <<TOPIC_REGISTRY, MODE, USE_CACHE, webhooks, topicCatalog, now>>
    /\ UNCHANGED secretVars
    /\ UNCHANGED <<EVENTS_RETENTION_DAYS, delayFailsAt, changedAt>>

RetryFailedEvent(event_id) ==
    /\ \E r \in retry_failed_event(event_id) :
            /\ scheduled' = r.o.newJobs
            /\ printed' = r.o.printed
            /\ cacheStore' = r.o.cache
            /\ last' = [op |-> "retry_failed_event", event |-> event_id,
                        result |-> r.result, value |-> r.value,
                        dispatched |-> r.dispatched, err |-> r.o.exc, at |-> now]
    /\ UNCHANGED <<TOPIC_REGISTRY, MODE, USE_CACHE, webhooks, topicCatalog, now>>
    /\ UNCHANGED secretVars
    /\ UNCHANGED <<eventVars, delayFailsAt, changedAt>>

\* days: int = None
NoDays == [given |-> FALSE, value |-> 0]

\* days or settings.get('EVENTS_RETENTION_DAYS', 30)
retention_days(days) ==
    IF days.given /\ days.value # 0 THEN days.value ELSE EVENTS_RETENTION_DAYS

\* timezone.now() - timedelta(days=retention_days)
cutoff_date(days) == now - retention_days(days) * Day

\* a filter that also takes the rows created at the cutoff
OlderThan_or_at(cutoff) == {e \in events : e.created <= cutoff}

\* WebhookEvent.objects.filter(created__lt=cutoff_date)
OlderThan(cutoff) == {e \in events : e.created < cutoff}

CleanupOldEvents(days) ==
    /\ LET deleted_count == Cardinality(OlderThan(cutoff_date(days))) IN
            /\ events' = events \ OlderThan(cutoff_date(days))
            /\ last' = [op |-> "cleanup_old_events", days |-> days,
                        result |-> "returned", deleted_count |-> deleted_count,
                        before |-> events, at |-> now]
    /\ scheduled' = <<>>
    /\ printed' = <<>>
    /\ UNCHANGED <<TOPIC_REGISTRY, MODE, USE_CACHE, webhooks, topicCatalog, now,
                   cacheStore, EVENTS_RETENTION_DAYS, delayFailsAt, changedAt>>
    /\ UNCHANGED secretVars

\* a day passes
DayPasses ==
    /\ now + Day <= MaxDays * Day
    /\ now' = now + Day
    /\ UNCHANGED <<TOPIC_REGISTRY, MODE, USE_CACHE, webhooks, topicCatalog,
                   cacheStore, last, scheduled, printed>>
    /\ UNCHANGED secretVars
    /\ UNCHANGED <<eventVars, delayFailsAt, changedAt>>

\* what the delivery worker recorded before: a failure 40 days ago, a success
\* 10 days ago, a delivery still pending from exactly 30 days ago, a failure
\* whose webhook is gone, a failure of a topic that is no longer registered,
\* and a failure whose handler returns its payload as it is
OrderBody == PyDict(<< <<"id", PyInt(7)>> >>)
EchoBody == PyDict(<< <<"note", PyStr("x")>> >>)

EventsAtStart ==
    {WebhookEvent(1, 1, "order.created", OrderBody, "FAILURE", 0 - 40 * Day),
     WebhookEvent(2, 1, "order.created", OrderBody, "SUCCESS", 0 - 10 * Day),
     WebhookEvent(3, 2, "order.echo", EchoBody, "PENDING", 0 - 30 * Day),
     WebhookEvent(4, 0, "order.created", OrderBody, "FAILURE", 0 - 7 * Day),
     WebhookEvent(5, 2, "ghost.topic", OrderBody, "FAILURE", 0 - Day),
     WebhookEvent(6, 2, "order.echo", EchoBody, "FAILURE", 0 - 2 * Day)}

EventIds == {1, 2, 3, 4, 5, 6, 9}          \* 9 names no event
RetentionSettings == {30, 7}
CleanupInputs == {NoDays, Given(1), Given(30), Given(39)}

InitEventStore ==
    /\ TOPIC_REGISTRY = [t \in RegisteredAtStartup |-> HandlerAtStartup(t)]
    /\ MODE \in {"LIVE", "CONSOLE"}
    /\ USE_CACHE = FALSE
    /\ webhooks = [w \in WebhookIds |->
                    [uuid |-> UuidOf[w], url |-> "https://a.example",
                     active |-> TRUE, topics |-> SubscribedAtStart(w)]]
    /\ topicCatalog = RegisteredAtStartup
    /\ now = 0
    /\ cacheStore = EmptyCache
    /\ last = NoCall
    /\ scheduled = <<>>
    /\ printed = <<>>
    /\ InitSecrets
    /\ events = EventsAtStart
    /\ EVENTS_RETENTION_DAYS \in RetentionSettings
    /\ delayFailsAt = 0
    /\ changedAt = [w \in WebhookIds |-> 0]

NextEventStore ==
    \/ \E id \in EventIds : RetryFailedEvent(id)
    \/ \E days \in CleanupInputs : CleanupOldEvents(days)
    \/ \E u \in {"uuid-1", "uuid-2"}, a \in {Given(TRUE), Given(FALSE)} :
            UpdateWebhook(u, NoUrl, NoTopics, a)
    \/ DayPasses

SpecEventStore == InitEventStore /\ [][NextEventStore]_vars

(***************************************************************************)
(* cleanup_old_events statement by statement, for calls that run at the    *)
(* same time: the count query and the delete are two statements against    *)
(* the store, with no transaction around them.                             *)
(***************************************************************************)
\* lines 254-262: retention_days, cutoff_date, deleted_count = ...count()
CleanupCount(p, days) ==
    /\ pc[p] = "idle"
    /\ req' = [req EXCEPT ![p] =
                [op |-> "cleanup_old_events", days |-> days,
                 cutoff_date |-> cutoff_date(days),
                 deleted_count |-> Cardinality(OlderThan(cutoff_date(days)))]]
    /\ pc' = [pc EXCEPT ![p] = "cleanup_delete"]
    /\ UNCHANGED <<secrets, nextSecretId, tokensDrawn, last, scheduled, printed>>
    /\ UNCHANGED <<TOPIC_REGISTRY, MODE, USE_CACHE, webhooks, topicCatalog, now,
                   cacheStore>>
    /\ UNCHANGED <<eventVars, delayFailsAt, changedAt>>

\* lines 264-267: filter(created__lt=cutoff_date).delete(); return deleted_count.
\* removed is the number of rows this delete took out of the table.
CleanupDelete(p) ==
    /\ pc[p] = "cleanup_delete"
    /\ events' = events \ OlderThan(req[p].cutoff_date)
    /\ last' = [op |-> "cleanup_old_events", thread |-> p, days |-> req[p].days,
                result |-> "returned", deleted_count |-> req[p].deleted_count,
                removed |-> Cardinality(OlderThan(req[p].cutoff_date)),
                before |-> events, at |-> now]
    /\ pc' = [pc EXCEPT ![p] = "idle"]
    /\ req' = [req EXCEPT ![p] = NoRequest]
    /\ scheduled' = <<>>
    /\ printed' = <<>>
    /\ UNCHANGED <<secrets, nextSecretId, tokensDrawn>>
    /\ UNCHANGED <<TOPIC_REGISTRY, MODE, USE_CACHE, webhooks, topicCatalog, now,
                   cacheStore, EVENTS_RETENTION_DAYS, delayFailsAt, changedAt>>

InitCleanupConc ==
    /\ TOPIC_REGISTRY = [t \in RegisteredAtStartup |-> HandlerAtStartup(t)]
    /\ MODE = "LIVE"
    /\ USE_CACHE = FALSE
    /\ webhooks = [w \in WebhookIds |->
                    [uuid |-> UuidOf[w], url |-> "https://a.example",
                     active |-> TRUE, topics |-> SubscribedAtStart(w)]]
    /\ topicCatalog = RegisteredAtStartup
    /\ now = 0
    /\ cacheStore = EmptyCache
    /\ last = NoCall
    /\ scheduled = <<>>
    /\ printed = <<>>
    /\ InitSecrets
    /\ events = EventsAtStart
    /\ EVENTS_RETENTION_DAYS \in RetentionSettings
    /\ delayFailsAt = 0
    /\ changedAt = [w \in WebhookIds |-> 0]

NextCleanupConc ==
    \/ \E p \in Threads, days \in CleanupInputs : CleanupCount(p, days)
    \/ \E p \in Threads : CleanupDelete(p)
    \/ DayPasses

SpecCleanupConc == InitCleanupConc /\ [][NextCleanupConc]_vars

(***************************************************************************)
(* services.py: get_event_stats and get_webhook_health.  A rate is kept as *)
(* the fraction num / den; round(rate, 2) is kept in hundredths.           *)
(***************************************************************************)
\* webhook.events.filter(created__gte=cutoff_date) and its counts by status
get_event_stats(webhook, days) ==
    LET evs == {e \in events : e.webhook = webhook /\ e.created >= now - days * Day}
    IN  [total |-> Cardinality(evs),
         success |-> Cardinality({e \in evs : e.status = "SUCCESS"}),
         failed |-> Cardinality({e \in evs : e.status = "FAILURE"}),
         pending |-> Cardinality({e \in evs : e.status = "PENDING"})]

\* success_rate = 0, or (stats['success'] / total_events) * 100
success_rate(stats) ==
    IF stats.total > 0
    THEN [num |-> stats.success * 100, den |-> stats.total]
    ELSE [num |-> 0, den |-> 1]

\* round(rate, 2), in hundredths: the nearest, the even one of two equally near
round2(rate) ==
    LET q == (rate.num * 100) \div rate.den
        r == (rate.num * 100) % rate.den
    IN  IF 2 * r > rate.den THEN q + 1
        ELSE IF 2 * r = rate.den /\ q % 2 = 1 THEN q + 1
        ELSE q

\* thresholds that a rate must exceed
health_status_above(rate) ==
    IF rate.num > 95 * rate.den THEN "healthy"
    ELSE IF rate.num > 80 * rate.den THEN "warning"
    ELSE "unhealthy"

health_status(rate) ==
    IF rate.num >= 95 * rate.den THEN "healthy"
    ELSE IF rate.num >= 80 * rate.den THEN "warning"
    ELSE "unhealthy"

get_webhook_health(webhook) ==
    LET stats == get_event_stats(webhook, 7) IN
    [webhook_id |-> webhooks[webhook].uuid,
     url |-> webhooks[webhook].url,
     active |-> webhooks[webhook].active,
     health_status |-> health_status(success_rate(stats)),
     success_rate |-> round2(success_rate(stats)),
     events_last_7_days |-> stats]

GetWebhookHealth(webhook) ==
    /\ last' = [op |-> "get_webhook_health", webhook |-> webhook,
                result |-> "returned", health |-> get_webhook_health(webhook),
                at |-> now]
    /\ UNCHANGED <<TOPIC_REGISTRY, MODE, USE_CACHE, webhooks, topicCatalog, now,
                   cacheStore, scheduled, printed>>
    /\ UNCHANGED secretVars
    /\ UNCHANGED <<eventVars, delayFailsAt, changedAt>>

GetEventStats(webhook, days) ==
    /\ last' = [op |-> "get_event_stats", webhook |-> webhook, days |-> days,
                result |-> "returned", stats |-> get_event_stats(webhook, days),
                at |-> now]
    /\ UNCHANGED <<TOPIC_REGISTRY, MODE, USE_CACHE, webhooks, topicCatalog, now,
                   cacheStore, scheduled, printed>>
    /\ UNCHANGED secretVars
    /\ UNCHANGED <<eventVars, delayFailsAt, changedAt>>

\* The events of webhook 1: s successes created exactly 7 days ago, f failures
\* from yesterday, p still pending, and old successes created one second more
\* than 7 days ago; and one failure of webhook 2.
HealthEvents(s, f, p, old) ==
    {WebhookEvent(i, 1, "order.created", OrderBody, "SUCCESS", 0 - 7 * Day) : i \in 1..s}
    \cup {WebhookEvent(MaxSuccess + i, 1, "order.created", OrderBody, "FAILURE", 0 - Day) :
            i \in 1..f}
    \cup {WebhookEvent(MaxSuccess + MaxFailed + i, 1, "order.created", OrderBody,
                       "PENDING", 0) : i \in 1..p}
    \cup {WebhookEvent(MaxSuccess + MaxFailed + 1 + i, 1, "order.created", OrderBody,
                       "SUCCESS", 0 - 7 * Day - 1) : i \in 1..old}
    \cup {WebhookEvent(MaxSuccess + MaxFailed + 4, 2, "order.echo", EchoBody,
                       "FAILURE", 0 - Day)}

StatsWindows == {30, 1}

InitHealth ==
    /\ TOPIC_REGISTRY = [t \in RegisteredAtStartup |-> HandlerAtStartup(t)]
    /\ MODE = "LIVE"
    /\ USE_CACHE = FALSE
    /\ webhooks = [w \in WebhookIds |->
                    [uuid |-> UuidOf[w], url |-> "https://a.example",
                     active |-> TRUE, topics |-> SubscribedAtStart(w)]]
    /\ topicCatalog = RegisteredAtStartup
    /\ now = 0
    /\ cacheStore = EmptyCache
    /\ last = NoCall
    /\ scheduled = <<>>
    /\ printed = <<>>
    /\ InitSecrets
    /\ EVENTS_RETENTION_DAYS = 30
    /\ delayFailsAt = 0
    /\ changedAt = [w \in WebhookIds |-> 0]
    /\ \E s \in 0..MaxSuccess, f \in 0..MaxFailed, p \in 0..1, old \in 0..2 :
            events = HealthEvents(s, f, p, old)

NextHealth ==
    \/ \E w \in WebhookIds : GetWebhookHealth(w)
    \/ \E w \in WebhookIds, days \in StatsWindows : GetEventStats(w, days)

SpecHealth == InitHealth /\ [][NextHealth]_vars

(***************************************************************************)
(* registry.py: register_topic, and the populate_webhook_topics command    *)
(* that reconciles the WebhookTopic rows with the registry.  The registry  *)
(* starts empty; the modules of the host application register their        *)
(* handlers as they are imported.                                          *)
(***************************************************************************)
HandlerNames == {"pick_id", "echo"}

\* a registration that keeps the handler a name already has
register_topic_keep_first(registry, topic, func) ==
    [t \in DOMAIN registry \cup {topic} |->
        IF t \in DOMAIN registry THEN registry[t] ELSE func]

\* TOPIC_REGISTRY[topic] = func
register_topic(registry, topic, func) ==
    [t \in DOMAIN registry \cup {topic} |-> IF t = topic THEN func ELSE registry[t]]

RegisterTopic(topic, func) ==
    /\ TOPIC_REGISTRY' = register_topic(TOPIC_REGISTRY, topic, func)
    /\ last' = [op |-> "register_topic", topic |-> topic, handler |-> func,
                result |-> "returned", before |-> TOPIC_REGISTRY, at |-> now]
    /\ UNCHANGED <<MODE, USE_CACHE, webhooks, topicCatalog, now, cacheStore,
                   scheduled, printed>>
    /\ UNCHANGED secretVars
    /\ UNCHANGED <<eventVars, delayFailsAt, changedAt>>

GetHandler(topic) ==
    /\ last' = [op |-> "get_handler", topic |-> topic,
                handler |-> get_handler(topic).handler,
                result |-> IF get_handler(topic).exc = "" THEN "returned"
                           ELSE get_handler(topic).exc,
                at |-> now]
    /\ UNCHANGED <<TOPIC_REGISTRY, MODE, USE_CACHE, webhooks, topicCatalog, now,
                   cacheStore, scheduled, printed>>
    /\ UNCHANGED secretVars
    /\ UNCHANGED <<eventVars, delayFailsAt, changedAt>>

\* a reconciliation that removes nothing
populate_webhook_topics_no_delete(registry, catalog) ==
    LET allowed_topics == DOMAIN registry
        new == {t \in allowed_topics : t \notin catalog}
    IN  IF allowed_topics = {}
        THEN [catalog |-> catalog, deleted_count |-> 0, created_count |-> 0]
        ELSE [catalog |-> catalog \cup new, deleted_count |-> 0,
              created_count |-> Cardinality(new)]

\* Command.handle once the store answers: the WebhookTopic rows it leaves and
\* the counts it reports
populate_webhook_topics(registry, catalog) ==
    LET allowed_topics == DOMAIN registry
        obsolete == {n \in catalog : n \notin allowed_topics}
        kept == catalog \ obsolete
        new == {t \in allowed_topics : t \notin kept}
    IN  IF allowed_topics = {}
        THEN [catalog |-> catalog, deleted_count |-> 0, created_count |-> 0]
        ELSE [catalog |-> kept \cup new, deleted_count |-> Cardinality(obsolete),
              created_count |-> Cardinality(new)]

\* deleting a WebhookTopic row takes the subscriptions to it along
PopulateWebhookTopics ==
    /\ LET r == populate_webhook_topics(TOPIC_REGISTRY, topicCatalog) IN
            /\ topicCatalog' = r.catalog
            /\ webhooks' = [w \in DOMAIN webhooks |->
                                [webhooks[w] EXCEPT !.topics = @ \cap r.catalog]]
            /\ last' = [op |-> "populate_webhook_topics", result |-> "returned",
                        before |-> topicCatalog, deleted_count |-> r.deleted_count,
                        created_count |-> r.created_count, at |-> now]
    /\ UNCHANGED <<TOPIC_REGISTRY, MODE, USE_CACHE, now, cacheStore, scheduled, printed>>
    /\ UNCHANGED secretVars
    /\ UNCHANGED <<eventVars, delayFailsAt, changedAt>>

InitRegistry ==
    /\ TOPIC_REGISTRY = [t \in {} |-> ""]
    /\ MODE = "LIVE"
    /\ USE_CACHE = FALSE
    /\ topicCatalog \in SUBSET TopicNames
    /\ webhooks = [w \in WebhookIds |->
                    [uuid |-> UuidOf[w], url |-> "https://a.example",
                     active |-> TRUE,
                     topics |-> IF w = 1 THEN topicCatalog ELSE {}]]
    /\ now = 0
    /\ cacheStore = EmptyCache
    /\ last = NoCall
    /\ scheduled = <<>>
    /\ printed = <<>>
    /\ InitSecrets
    /\ InitEvents

NextRegistry ==
    \/ \E t \in TopicNames, f \in HandlerNames : RegisterTopic(t, f)
    \/ \E t \in TopicNames : GetHandler(t)
    \/ PopulateWebhookTopics

SpecRegistry == InitRegistry /\ [][NextRegistry]_vars

(***************************************************************************)
(* controllers.py: WebhookBulkController.  Each request works through its  *)
(* list of ids, counting the calls that returned and the calls that        *)
(* raised.                                                                 *)
(***************************************************************************)
\* WebhookService.delete_webhook: how the call ends and the rows it leaves
delete_webhook(ws, webhook_id) ==
    IF WebhookByUuid(ws, webhook_id) = {}
    THEN [result |-> "Http404", webhooks |-> ws]
    ELSE LET w == CHOOSE x \in WebhookByUuid(ws, webhook_id) : TRUE IN
         [result |-> "returned", webhooks |-> [x \in DOMAIN ws \ {w} |-> ws[x]]]

\* one turn of the loop: the counts and the rows after the call ended as r
Counted(acc, r) ==
    [webhooks |-> r.webhooks,
     done_count |-> acc.done_count + (IF r.result = "returned" THEN 1 ELSE 0),
     failed_count |-> acc.failed_count + (IF r.result = "returned" THEN 0 ELSE 1),
     results |-> Append(acc.results, r.result)]

NothingCounted(ws) ==
    [webhooks |-> ws, done_count |-> 0, failed_count |-> 0, results |-> <<>>]

RECURSIVE bulk_update_from(_, _, _, _, _, _)
bulk_update_from(acc, webhook_ids, i, url, topics, active) ==
    IF i > Len(webhook_ids) THEN acc
    ELSE bulk_update_from(
            Counted(acc, update_webhook(acc.webhooks, webhook_ids[i], url, topics, active)),
            webhook_ids, i + 1, url, topics, active)

RECURSIVE bulk_delete_from(_, _, _)
bulk_delete_from(acc, webhook_ids, i) ==
    IF i > Len(webhook_ids) THEN acc
    ELSE bulk_delete_from(Counted(acc, delete_webhook(acc.webhooks, webhook_ids[i])),
                          webhook_ids, i + 1)

\* WebhookOperationResponseSchema(success=failed_count == 0, message=...)
BulkResponse(op, webhook_ids, acc) ==
    [op |-> op, webhook_ids |-> webhook_ids, result |-> "returned",
     success |-> acc.failed_count = 0, done_count |-> acc.done_count,
     failed_count |-> acc.failed_count, results |-> acc.results, at |-> now]

BulkUpdateWebhooks(webhook_ids, url, topics, active) ==
    /\ LET acc == bulk_update_from(NothingCounted(webhooks), webhook_ids, 1,
                                   url, topics, active) IN
            /\ webhooks' = acc.webhooks
            /\ changedAt' = ChangeTimes(webhooks, acc.webhooks)
            /\ last' = BulkResponse("bulk_update_webhooks", webhook_ids, acc)
    /\ scheduled' = <<>>
    /\ printed' = <<>>
    /\ UNCHANGED <<TOPIC_REGISTRY, MODE, USE_CACHE, topicCatalog, now, cacheStore>>
    /\ UNCHANGED secretVars
    /\ UNCHANGED <<eventVars, delayFailsAt>>

BulkDeleteWebhooks(webhook_ids) ==
    /\ LET acc == bulk_delete_from(NothingCounted(webhooks), webhook_ids, 1) IN
            /\ webhooks' = acc.webhooks
            /\ last' = BulkResponse("bulk_delete_webhooks", webhook_ids, acc)
    /\ scheduled' = <<>>
    /\ printed' = <<>>
    /\ UNCHANGED <<TOPIC_REGISTRY, MODE, USE_CACHE, topicCatalog, now, cacheStore>>
    /\ UNCHANGED secretVars
    /\ UNCHANGED <<eventVars, delayFailsAt, changedAt>>

\* webhook_ids: List[UUID]
Batches == UNION {[1..n -> AllUuids] : n \in 0..MaxBatch}

\* updates: WebhookUpdateSchema
BulkUpdates ==
    {<<NoTopics, Given(FALSE)>>, <<NoTopics, Given(TRUE)>>,
     <<Given({"order.created"}), NoActive>>,
     <<Given({"ghost.topic"}), Given(FALSE)>>}

NextBulk ==
    \/ \E ids \in Batches, in \in BulkUpdates :
            BulkUpdateWebhooks(ids, NoUrl, in[1], in[2])
    \/ \E ids \in Batches : BulkDeleteWebhooks(ids)

SpecBulk == Init /\ [][NextBulk]_vars

(***************************************************************************)
(* Dispatch over a store that holds subscriptions, secrets and event       *)
(* records: broadcasts and targeted dispatches in either mode, with and    *)
(* without the cache, against a broker that can be lost.                   *)
(***************************************************************************)
InitDispatchStore ==
    /\ TOPIC_REGISTRY = [t \in RegisteredAtStartup |-> HandlerAtStartup(t)]
    /\ MODE \in {"LIVE", "CONSOLE"}
    /\ USE_CACHE \in BOOLEAN
    /\ webhooks = [w \in WebhookIds |->
                    [uuid |-> UuidOf[w], url |-> "https://a.example",
                     active |-> TRUE, topics |-> SubscribedAtStart(w)]]
    /\ topicCatalog = RegisteredAtStartup
    /\ now = 0
    /\ cacheStore = EmptyCache
    /\ last = NoCall
    /\ scheduled = <<>>
    /\ printed = <<>>
    /\ secrets = {[id |-> w, webhook |-> w, token |-> w] : w \in WebhookIds}
    /\ nextSecretId = Cardinality(WebhookIds) + 1
    /\ tokensDrawn = Cardinality(WebhookIds)
    /\ pc = [p \in Threads |-> "idle"]
    /\ req = [p \in Threads |-> NoRequest]
    /\ events = EventsAtStart
    /\ EVENTS_RETENTION_DAYS = 30
    /\ delayFailsAt = 0
    /\ changedAt = [w \in WebhookIds |-> 0]

NextDispatchStore ==
    \/ \E t \in TopicNames, d \in DataValues, id \in TargetValues :
            FireWebhookEvent(t, d, id)
    \/ \E u \in {"uuid-1", "uuid-2"}, a \in {Given(TRUE), Given(FALSE)} :
            UpdateWebhook(u, NoUrl, NoTopics, a)
    \/ \E k \in 0..Cardinality(WebhookIds) : BrokerFault(k)

SpecDispatchStore == InitDispatchStore /\ [][NextDispatchStore]_vars

(***************************************************************************)
(* Updates of a webhook with every combination of the optional arguments:  *)
(* url left alone or given, active left alone or given, topics left alone, *)
(* all registered, or holding a name the registry does not have.           *)
(***************************************************************************)
UrlInputs == {NoUrl, Given("https://b.example"), Given("https://a.example")}
ActiveInputs == {NoActive, Given(TRUE), Given(FALSE)}
TopicsInputs ==
    {NoTopics, Given({}), Given({"order.created"}), Given({"ghost.topic"}),
     Given({"order.echo", "ghost.topic"})}

NextUpdate ==
    \E u \in AllUuids, url \in UrlInputs, t \in TopicsInputs, a \in ActiveInputs :
        UpdateWebhook(u, url, t, a)

SpecUpdate == Init /\ [][NextUpdate]_vars

(***************************************************************************)
(* services.py: WebhookService.create_webhook.  One transaction: validate  *)
(* the topics against the registry, create the Webhook row, subscribe it   *)
(* to the WebhookTopic rows whose name is among the topics, generate its   *)
(* first secret.  The catalog of WebhookTopic rows is written only by the  *)
(* populate_webhook_topics command, so it can lag behind the registry.     *)
(***************************************************************************)
MaxCreated == 2

\* Webhook.objects.create(url=url): the next id of the table, a fresh uuid
NewWebhookId(ws) == Cardinality(DOMAIN ws) + 1

NewUuid(id) == "uuid-" \o ToString(id)

\* how the call ends, the Webhook and WebhookSecret rows it leaves, and the
\* id of the webhook it returns (0 when it raises)
create_webhook(ws, secs, url, topics) ==
    IF ~validate_topics(topics)
    THEN [result |-> "ValidationError", webhooks |-> ws, secrets |-> secs,
          webhook |-> 0]
    ELSE LET id == NewWebhookId(ws)
             topic_objects == {n \in topicCatalog : n \in topics}
             row == [uuid |-> NewUuid(id), url |-> url, active |-> TRUE,
                     topics |-> topic_objects]
         IN  [result |-> "returned",
              webhooks |-> [w \in DOMAIN ws \cup {id} |->
                                IF w = id THEN row ELSE ws[w]],
              secrets |-> {x \in secs : x.webhook # id}
                            \cup {[id |-> nextSecretId, webhook |-> id,
                                   token |-> tokensDrawn + 1]},
              webhook |-> id]

CreateWebhook(url, topics) ==
    /\ Cardinality(DOMAIN webhooks) < Cardinality(WebhookIds) + MaxCreated
    /\ tokensDrawn < MaxTokens
    /\ LET r == create_webhook(webhooks, secrets, url, topics) IN
            /\ webhooks' = r.webhooks
            /\ secrets' = r.secrets
            /\ nextSecretId' = IF r.result = "returned"
                               THEN nextSecretId + 1 ELSE nextSecretId
            /\ tokensDrawn' = IF r.result = "returned"
                              THEN tokensDrawn + 1 ELSE tokensDrawn
            /\ last' = [op |-> "create_webhook", url |-> url, topics |-> topics,
                        result |-> r.result, webhook |-> r.webhook,
                        before |-> [webhooks |-> webhooks, secrets |-> secrets],
                        at |-> now]
    /\ scheduled' = <<>>
    /\ printed' = <<>>
    /\ UNCHANGED <<TOPIC_REGISTRY, MODE, USE_CACHE, topicCatalog, now, cacheStore>>
    /\ UNCHANGED <<pc, req>>
    /\ UNCHANGED <<eventVars, delayFailsAt, changedAt>>

CreateUrls == {"https://a.example", "https://b.example"}

CreateTopics ==
    {{}, {"order.created"}, {"order.echo"}, {"order.created", "order.echo"},
     {"ghost.topic"}, {"order.created", "ghost.topic"}}

\* the registry as the modules left it at import; the catalog as the last
\* run of the populate command left it, possibly before a topic was added
InitCreate ==
    /\ TOPIC_REGISTRY = [t \in RegisteredAtStartup |-> HandlerAtStartup(t)]
    /\ MODE = "LIVE"
    /\ USE_CACHE = FALSE
    /\ topicCatalog \in SUBSET RegisteredAtStartup
    /\ webhooks = [w \in WebhookIds |->
                    [uuid |-> UuidOf[w], url |-> "https://a.example",
                     active |-> TRUE, topics |-> topicCatalog]]
    /\ now = 0
    /\ cacheStore = EmptyCache
    /\ last = NoCall
    /\ scheduled = <<>>
    /\ printed = <<>>
    /\ secrets = {[id |-> w, webhook |-> w, token |-> w] : w \in WebhookIds}
    /\ nextSecretId = Cardinality(WebhookIds) + 1
    /\ tokensDrawn = Cardinality(WebhookIds)
    /\ pc = [p \in Threads |-> "idle"]
    /\ req = [p \in Threads |-> NoRequest]
    /\ InitEvents

NextCreate ==
    \/ \E url \in CreateUrls, topics \in CreateTopics : CreateWebhook(url, topics)
    \/ PopulateWebhookTopics

SpecCreate == InitCreate /\ [][NextCreate]_vars

(***************************************************************************)
(* Properties of dispatch.                                                 *)
(***************************************************************************)
IsDispatch == last.op = "fire_webhook_event"
TopicBound == last.topic \in DOMAIN TOPIC_REGISTRY
Broadcast == last.target = None
\* H(data) for the topic and data of the most recent dispatch
HandlerResult == CallHandler(TOPIC_REGISTRY[last.topic], last.data)
BodyValid ==
    /\ TopicBound
    /\ HandlerResult.exc = ""
    /\ HandlerResult.val.kind \in {"None", "str", "dict"}
ScheduledIds == {scheduled[i].id : i \in 1..Len(scheduled)}
CachedIds(topic) ==
    {cacheStore[topic].value[i].id : i \in 1..Len(cacheStore[topic].value)}

\* C1: dispatching a topic name that is not bound in the registry fails with a
\* validation failure whether USE_CACHE is on or off; no subscriber lookup is
\* made, the cache is not filled for it, and nothing is scheduled or printed.
C1_UnboundTopicFails ==
    (IsDispatch /\ ~TopicBound) =>
        /\ last.result = "ValidationError"
        /\ ~last.lookup
        /\ ~last.queried
        /\ last.topic \notin DOMAIN cacheStore
        /\ scheduled = <<>>
        /\ printed = <<>>

C1_Witness ==
    /\ IsDispatch
    /\ ~TopicBound
    /\ USE_CACHE
    /\ cacheStore # EmptyCache

\* C2: in live mode the payload of every scheduled job is the serialized
\* envelope {object: H(data), topic, timestamp, webhook_uuid}.
C2_JobPayloadIsEnvelope ==
    (IsDispatch /\ MODE = "LIVE" /\ BodyValid) =>
        \A i \in 1..Len(scheduled) :
            scheduled[i].payload =
                json_dumps(PyDict(<< <<"object", HandlerResult.val>>,
                                     <<"topic", PyStr(last.topic)>>,
                                     <<"timestamp", PyFloat(now)>>,
                                     <<"webhook_uuid",
                                       PyStr(webhooks[scheduled[i].id].uuid)>> >>),
                           FALSE)

\* C3 as stated: a live broadcast schedules exactly one job per webhook that is
\* active and subscribed to the topic, none for any other webhook, and returns.
C3_JobsForActiveSubscribersNow ==
    (IsDispatch /\ MODE = "LIVE" /\ Broadcast /\ BodyValid) =>
        /\ last.result = "returned"
        /\ Len(scheduled) = Cardinality(ScheduledIds)
        /\ ScheduledIds =
            {w \in WebhookIds : webhooks[w].active /\ last.topic \in webhooks[w].topics}

\* C3 amended: a live broadcast schedules exactly one job per webhook in the
\* sequence subscriber resolution returned, keyed by its id and carrying the
\* topic, and none for any other webhook; when resolution queried the store
\* these are the webhooks active and subscribed now, on a cache hit they are
\* the webhooks of the cached sequence; the call returns.
C3_JobsForResolvedSubscribers ==
    (IsDispatch /\ MODE = "LIVE" /\ Broadcast /\ BodyValid) =>
        /\ last.result = "returned"
        /\ last.err = ""
        /\ last.lookup
        /\ Len(scheduled) = Cardinality(ScheduledIds)
        /\ \A i \in 1..Len(scheduled) : scheduled[i].topic = last.topic
        /\ last.queried =>
            ScheduledIds =
                {w \in WebhookIds :
                    webhooks[w].active /\ last.topic \in webhooks[w].topics}
        /\ ~last.queried =>
            /\ USE_CACHE
            /\ last.topic \in DOMAIN cacheStore
            /\ ScheduledIds = CachedIds(last.topic)

C3_Witness ==
    /\ IsDispatch /\ MODE = "LIVE" /\ Broadcast /\ BodyValid
    /\ last.queried
    /\ Len(scheduled) = 1
    /\ \E w \in WebhookIds : ~webhooks[w].active /\ last.topic \in webhooks[w].topics

\* C4: a dispatch with a target_webhook_id does not consult the subscriber
\* store or cache and, in live mode, schedules exactly one job, for that
\* identity.
C4_TargetedSchedulesOne ==
    (IsDispatch /\ MODE = "LIVE" /\ ~Broadcast /\ BodyValid) =>
        /\ ~last.lookup
        /\ Len(scheduled) = 1

\* C5: in console mode a broadcast of a bound topic prints, for each resolved
\* subscriber, the envelope whose object is H(data), whose topic is the topic
\* and whose webhook_uuid is the subscriber's public id; no console-mode call
\* schedules a job.
C5_ConsoleEnvelope ==
    (IsDispatch /\ MODE # "LIVE") =>
        /\ scheduled = <<>>
        /\ (Broadcast /\ BodyValid) =>
            /\ Len(printed) =
                   IF USE_CACHE
                   THEN Len(cacheStore[last.topic].value)
                   ELSE Cardinality({w \in WebhookIds :
                            webhooks[w].active /\ last.topic \in webhooks[w].topics})
            /\ \A w \in WebhookIds :
                (IF USE_CACHE
                 THEN w \in CachedIds(last.topic)
                 ELSE webhooks[w].active /\ last.topic \in webhooks[w].topics)
                => \E i \in 1..Len(printed) :
                        /\ printed[i].uuid = webhooks[w].uuid
                        /\ printed[i].topic = last.topic
                        /\ printed[i].text =
                            json_dumps(PyDict(<< <<"object", HandlerResult.val>>,
                                                 <<"topic", PyStr(last.topic)>>,
                                                 <<"timestamp", PyFloat(now)>>,
                                                 <<"webhook_uuid",
                                                   PyStr(webhooks[w].uuid)>> >>),
                                       TRUE)

C5_Witness ==
    /\ IsDispatch /\ MODE # "LIVE" /\ Broadcast /\ BodyValid
    /\ Len(printed) = 2
    /\ last.topic = "order.created"

\* C6: when the handler raises or returns a value that is not None, a string
\* or a dict, fire_webhook_event does not return normally and nothing is
\* scheduled.
C6_HandlerFailureReachesCaller ==
    (IsDispatch /\ TopicBound /\ ~BodyValid) =>
        /\ last.result # "returned"
        /\ scheduled = <<>>

(***************************************************************************)
(* Properties of the subscriber resolution cache.                          *)
(***************************************************************************)
\* C10: with caching on and a TTL of 60 seconds, a resolution that finds an
\* entry stored by a store query less than 60 seconds earlier issues no store
\* query and returns the cached sequence, so two resolutions of a topic within
\* one TTL window issue at most one store query between them; a resolution
\* that finds no entry, or one stored more than 60 seconds earlier, queries
\* the store and stores what it got.
C10_OneQueryPerWindow ==
    (IsDispatch /\ USE_CACHE /\ last.lookup) =>
        /\ last.topic \in DOMAIN cacheStore
        /\ (last.found >= 0 /\ last.at - last.found < 60) =>
            /\ ~last.queried
            /\ cacheStore[last.topic].stored = last.found
            /\ ScheduledIds = CachedIds(last.topic)
        /\ (last.found < 0 \/ last.at - last.found > 60) =>
            /\ last.queried
            /\ cacheStore[last.topic].stored = last.at
            /\ ScheduledIds =
                {w \in WebhookIds :
                    webhooks[w].active /\ last.topic \in webhooks[w].topics}

C10_Witness ==
    /\ IsDispatch /\ USE_CACHE /\ last.lookup
    /\ last.found >= 0
    /\ last.at > last.found
    /\ last.at - last.found < 60
    /\ ~last.queried
    /\ ScheduledIds #
        {w \in WebhookIds : webhooks[w].active /\ last.topic \in webhooks[w].topics}

C10_WitnessExpired ==
    /\ IsDispatch /\ USE_CACHE /\ last.lookup
    /\ last.found >= 0
    /\ last.at - last.found > 60
    /\ last.queried

\* the webhooks a dispatch reached: scheduled for in live mode, printed for
\* otherwise
TargetedIds ==
    IF MODE = "LIVE"
    THEN ScheduledIds
    ELSE {w \in DOMAIN webhooks :
            \E i \in 1..Len(printed) : printed[i].uuid = webhooks[w].uuid}

\* C11: with caching on, a broadcast started more than one TTL (60 seconds)
\* after a webhook's active flag or subscriptions last changed targets the
\* webhook exactly when it is active and subscribed to the topic: never a
\* webhook deactivated or unsubscribed more than 60 seconds before, always one
\* activated and subscribed more than 60 seconds before.
C11_StalenessWithinOneTTL ==
    (IsDispatch /\ USE_CACHE /\ Broadcast /\ BodyValid) =>
        \A w \in WebhookIds :
            (last.at - changedAt[w] > 60) =>
                (w \in TargetedIds <=>
                    (webhooks[w].active /\ last.topic \in webhooks[w].topics))

C11_Witness ==
    /\ IsDispatch /\ USE_CACHE /\ Broadcast /\ BodyValid
    /\ ~last.queried
    /\ \E w \in WebhookIds :
            /\ changedAt[w] > 0
            /\ last.at - changedAt[w] > 60
            /\ ~webhooks[w].active
            /\ w \notin TargetedIds
    /\ \E w \in WebhookIds :
            /\ last.at - changedAt[w] < 60
            /\ (w \in TargetedIds) #
                    (webhooks[w].active /\ last.topic \in webhooks[w].topics)

\* C20: with caching off every subscriber resolution queries the store, so a
\* broadcast, in either mode, targets exactly the webhooks that are active and
\* subscribed to the topic when it runs: never one deactivated before it,
\* always one activated before it; the cache is neither read nor filled.
C20_UncachedTargetsCurrentSubscribers ==
    (IsDispatch /\ ~USE_CACHE /\ Broadcast /\ BodyValid) =>
        /\ last.lookup
        /\ last.queried
        /\ last.found = -1
        /\ cacheStore = EmptyCache
        /\ TargetedIds =
            {w \in WebhookIds : webhooks[w].active /\ last.topic \in webhooks[w].topics}
        /\ Len(scheduled) + Len(printed) = Cardinality(TargetedIds)

C20_Witness ==
    /\ IsDispatch /\ ~USE_CACHE /\ Broadcast /\ BodyValid
    /\ MODE # "LIVE"
    /\ \E w \in WebhookIds : ~webhooks[w].active /\ last.topic \in webhooks[w].topics
    /\ \E w \in WebhookIds : w \in TargetedIds

\* C19: when scheduling the job of the k-th subscriber of a live broadcast
\* fails, the jobs of the subscribers before it stay scheduled and the dispatch
\* call ends in failure.
C19_SchedulingFailureEndsInFailure ==
    (IsDispatch /\ MODE = "LIVE" /\ Broadcast /\ BodyValid
     /\ last.err = "OperationalError") =>
        /\ Len(scheduled) = Cardinality(ScheduledIds)
        /\ ScheduledIds \subseteq
            {w \in WebhookIds : webhooks[w].active /\ last.topic \in webhooks[w].topics}
        /\ Len(scheduled) <
            Cardinality({w \in WebhookIds :
                            webhooks[w].active /\ last.topic \in webhooks[w].topics})
        /\ last.result # "returned"

(***************************************************************************)
(* Properties of the event store operations.                               *)
(***************************************************************************)
IsRetry == last.op = "retry_failed_event"
RetriedEvent == CHOOSE e \in events : e.id = last.event

\* what retry_failed_event requires of the event it is given
RetryAllowed ==
    /\ \E e \in events : e.id = last.event
    /\ RetriedEvent.status = "FAILURE"
    /\ RetriedEvent.webhook \in DOMAIN webhooks
    /\ webhooks[RetriedEvent.webhook].active

\* C12: retry_failed_event raises a validation error and dispatches nothing
\* when the event does not exist, its status is not FAILURE, it has no webhook,
\* or its webhook is inactive.
C12_RetryRefusedWithoutDispatch ==
    (IsRetry /\ ~RetryAllowed) =>
        /\ last.result = "ValidationError"
        /\ ~last.value
        /\ ~last.dispatched
        /\ scheduled = <<>>
        /\ printed = <<>>

C12_Witness ==
    /\ IsRetry /\ ~RetryAllowed
    /\ \E e \in events : e.id = last.event
    /\ RetriedEvent.status = "FAILURE"
    /\ RetriedEvent.webhook \in DOMAIN webhooks
    /\ ~webhooks[RetriedEvent.webhook].active

\* C13: in live mode, a retry of a FAILURE event whose webhook is active and
\* whose topic is registered returns true having scheduled exactly one job:
\* for the event's webhook, with the event's topic, and with a payload whose
\* object is the event's stored payload body.
C13_RetrySchedulesOneJob ==
    (IsRetry /\ RetryAllowed /\ MODE = "LIVE"
     /\ RetriedEvent.topic \in DOMAIN TOPIC_REGISTRY) =>
        /\ last.result = "returned"
        /\ last.value
        /\ Len(scheduled) = 1
        /\ scheduled[1].id = RetriedEvent.webhook
        /\ scheduled[1].topic = RetriedEvent.topic
        /\ scheduled[1].payload =
                json_dumps(PyDict(<< <<"object", RetriedEvent.object>>,
                                     <<"topic", PyStr(RetriedEvent.topic)>>,
                                     <<"timestamp", PyFloat(last.at)>>,
                                     <<"webhook_uuid",
                                       PyStr(webhooks[RetriedEvent.webhook].uuid)>> >>),
                           FALSE)

IsCleanup == last.op = "cleanup_old_events"
\* the retention the call was to use, in days
RetentionAsked ==
    IF last.days.given THEN last.days.value ELSE EVENTS_RETENTION_DAYS

IsHealth == last.op = "get_webhook_health"
\* the events of the webhook created within the 7 days before the call
EventsOfLast7Days ==
    {e \in events : e.webhook = last.webhook /\ e.created >= last.at - 7 * 86400}
TotalOfLast7Days == Cardinality(EventsOfLast7Days)
SuccessOfLast7Days == Cardinality({e \in EventsOfLast7Days : e.status = "SUCCESS"})

\* C14: get_webhook_health takes its counts over the 7 days before the call;
\* success_rate is success/total*100 (reported to two decimals) and 0 when
\* total is 0; health_status is 'healthy' iff the rate is >= 95, 'warning' iff
\* it is >= 80 and < 95, and 'unhealthy' otherwise.
C14_HealthClassification ==
    IsHealth =>
        /\ last.health.events_last_7_days.total = TotalOfLast7Days
        /\ last.health.events_last_7_days.success = SuccessOfLast7Days
        /\ TotalOfLast7Days = 0 => last.health.success_rate = 0
        /\ TotalOfLast7Days > 0 =>
            /\ 2 * (last.health.success_rate * TotalOfLast7Days
                     - SuccessOfLast7Days * 10000) <= TotalOfLast7Days
            /\ 2 * (SuccessOfLast7Days * 10000
                     - last.health.success_rate * TotalOfLast7Days) <= TotalOfLast7Days
        /\ last.health.health_status = "healthy" <=>
                (TotalOfLast7Days > 0 /\ SuccessOfLast7Days * 100 >= 95 * TotalOfLast7Days)
        /\ last.health.health_status = "warning" <=>
                (/\ TotalOfLast7Days > 0
                 /\ SuccessOfLast7Days * 100 >= 80 * TotalOfLast7Days
                 /\ SuccessOfLast7Days * 100 < 95 * TotalOfLast7Days)
        /\ last.health.health_status = "unhealthy" <=>
                (TotalOfLast7Days = 0 \/ SuccessOfLast7Days * 100 < 80 * TotalOfLast7Days)

C14_Witness ==
    /\ IsHealth
    /\ TotalOfLast7Days = 20
    /\ SuccessOfLast7Days = 19
    /\ last.health.health_status = "healthy"
    /\ Cardinality({e \in events : e.webhook = last.webhook}) > TotalOfLast7Days

(***************************************************************************)
(* Properties of the registry and of topic reconciliation.                 *)
(***************************************************************************)
IsPopulate == last.op = "populate_webhook_topics"

\* C16 as stated: after populate_webhook_topics, for any registry and any prior
\* catalog, the persisted topic names are exactly the registry's keys, and a
\* run that finds them so creates and deletes nothing.
C16_CatalogMirrorsRegistry ==
    IsPopulate =>
        /\ topicCatalog = DOMAIN TOPIC_REGISTRY
        /\ last.before = DOMAIN TOPIC_REGISTRY =>
                (last.created_count = 0 /\ last.deleted_count = 0)

\* C16 amended: after populate_webhook_topics with a registry that is not
\* empty, the persisted topic names are exactly the registry's keys: the
\* obsolete names were deleted, the missing ones created, and a run that finds
\* the catalog equal to the keys creates and deletes nothing; with an empty
\* registry the command changes nothing, whatever the catalog holds.
C16_CatalogMirrorsNonEmptyRegistry ==
    IsPopulate =>
        /\ DOMAIN TOPIC_REGISTRY # {} =>
            /\ topicCatalog = DOMAIN TOPIC_REGISTRY
            /\ last.deleted_count = Cardinality(last.before \ DOMAIN TOPIC_REGISTRY)
            /\ last.created_count = Cardinality(DOMAIN TOPIC_REGISTRY \ last.before)
            /\ last.before = DOMAIN TOPIC_REGISTRY =>
                    (last.created_count = 0 /\ last.deleted_count = 0)
        /\ DOMAIN TOPIC_REGISTRY = {} =>
            /\ topicCatalog = last.before
            /\ last.created_count = 0
            /\ last.deleted_count = 0

C16_Witness ==
    /\ IsPopulate
    /\ last.deleted_count = 1
    /\ last.created_count = 2
    /\ topicCatalog = {"order.created", "order.echo"}

\* C17: register_topic binds the name to the handler given, also when the
\* name was bound before, raises nothing, and leaves every other name as it
\* was, bound or unbound; get_handler returns the handler the name is bound
\* to and raises TopicNotFound for a name that is not bound.
C17_LastRegistrationWins ==
    /\ last.op = "register_topic" =>
        /\ last.result = "returned"
        /\ last.topic \in DOMAIN TOPIC_REGISTRY
        /\ TOPIC_REGISTRY[last.topic] = last.handler
        /\ \A n \in TopicNames \ {last.topic} :
                /\ n \in DOMAIN TOPIC_REGISTRY <=> n \in DOMAIN last.before
                /\ n \in DOMAIN last.before => TOPIC_REGISTRY[n] = last.before[n]
    /\ last.op = "get_handler" =>
        IF last.topic \in DOMAIN TOPIC_REGISTRY
        THEN last.result = "returned" /\ last.handler = TOPIC_REGISTRY[last.topic]
        ELSE last.result = "TopicNotFound"

C17_Witness ==
    /\ last.op = "register_topic"
    /\ last.topic \in DOMAIN last.before
    /\ last.before[last.topic] # last.handler
    /\ TOPIC_REGISTRY[last.topic] = last.handler
    /\ \E n \in TopicNames \ {last.topic} : n \in DOMAIN TOPIC_REGISTRY
    /\ \E n \in TopicNames : n \notin DOMAIN TOPIC_REGISTRY

(***************************************************************************)
(* Properties of the bulk operations.                                      *)
(***************************************************************************)
IsBulk == last.op \in {"bulk_update_webhooks", "bulk_delete_webhooks"}

\* C18: bulk update and bulk delete go through every listed id, also after an
\* item failed; the updated/deleted count plus the failed count is the number
\* of ids; and the batch is reported as failed only when every item failed.
C18_BulkFailsOnlyIfAllFail ==
    IsBulk =>
        /\ Len(last.results) = Len(last.webhook_ids)
        /\ last.done_count + last.failed_count = Len(last.webhook_ids)
        /\ ~last.success => last.done_count = 0

(***************************************************************************)
(* What the operations leave alone.                                        *)
(***************************************************************************)
\* C21: a step that is a dispatch, whether it succeeds or fails, in either
\* mode, leaves the store's webhooks and their subscriptions, the topic
\* catalog, the secrets and the event records as they were.
C21_DispatchLeavesStoreUnchanged ==
    [][(last'.op = "fire_webhook_event") =>
            /\ webhooks' = webhooks
            /\ topicCatalog' = topicCatalog
            /\ secrets' = secrets
            /\ events' = events]_vars

C21_Witness ==
    /\ IsDispatch
    /\ MODE = "LIVE"
    /\ last.err = "OperationalError"
    /\ Len(scheduled) = 1
    /\ events = EventsAtStart
    /\ secrets # {}
    /\ \E w \in WebhookIds : ~webhooks[w].active

\* C22: an update_webhook call on an existing webhook whose topics argument
\* holds a name the registry does not have ends with a validation error
\* and leaves every webhook row (url, active flag, subscribed topics) as it
\* was, whatever url and active were passed along.
C22_InvalidTopicsUpdateChangesNothing ==
    [][\A u \in AllUuids, url \in UrlInputs, t \in TopicsInputs, a \in ActiveInputs :
            (/\ t.given
             /\ t.value \ DOMAIN TOPIC_REGISTRY # {}
             /\ WebhookByUuid(webhooks, u) # {}
             /\ UpdateWebhook(u, url, t, a))
            => /\ last'.result = "ValidationError"
               /\ webhooks' = webhooks]_vars

C22_Witness ==
    /\ last.op = "update_webhook"
    /\ last.result = "ValidationError"
    /\ \E w \in WebhookIds :
            /\ PyUUID(webhooks[w].uuid) = last.target
            /\ webhooks[w].url = "https://b.example"
            /\ ~webhooks[w].active
            /\ webhooks[w].topics = {"order.created"}

(***************************************************************************)
(* Properties of webhook creation.                                         *)
(***************************************************************************)
IsCreate == last.op = "create_webhook"

\* C23: a create_webhook call either raises and leaves the webhooks and
\* secrets as they were, or returns a webhook that has exactly one secret
\* and whose subscribed topic names are exactly the topics asked for.
C23_CreateAllOrExactTopics ==
    IsCreate =>
        IF last.result = "returned"
        THEN /\ last.webhook \in DOMAIN webhooks
             /\ last.webhook \notin DOMAIN last.before.webhooks
             /\ Cardinality(SecretsOf(last.webhook)) = 1
             /\ webhooks[last.webhook].topics = last.topics
        ELSE /\ webhooks = last.before.webhooks
             /\ secrets = last.before.secrets

\* what does hold: nothing is left behind by a refused call, and an accepted
\* one yields a webhook with one secret, subscribed to those of the topics
\* asked for that the catalog has
C23_CreateAllOrCataloguedTopics ==
    IsCreate =>
        IF last.result = "returned"
        THEN /\ last.webhook \in DOMAIN webhooks
             /\ last.webhook \notin DOMAIN last.before.webhooks
             /\ Cardinality(SecretsOf(last.webhook)) = 1
             /\ webhooks[last.webhook].topics = last.topics \cap topicCatalog
        ELSE /\ webhooks = last.before.webhooks
             /\ secrets = last.before.secrets

(***************************************************************************)
(* Properties of concurrent cleanups.                                      *)
(***************************************************************************)
\* C24: whatever other cleanup ran between its count and its delete, the
\* count a cleanup_old_events call returns is the number of event records
\* that this call deleted.
C24_CleanupCountIsWhatItDeleted ==
    (last.op = "cleanup_old_events" /\ last.result = "returned")
        => last.deleted_count = last.removed

(***************************************************************************)
(* What a retry leaves alone.                                              *)
(***************************************************************************)
\* C25: a retry_failed_event call, whether it returns or raises, leaves every
\* event record as it was (status, topic, payload, webhook), so an event
\* that could be retried can be retried again: each call on a FAILURE event
\* with an active webhook hands the event to the dispatcher once more, and
\* no call leaves more than one delivery job.
C25_RetryLeavesEventUnchanged ==
    [][(last'.op = "retry_failed_event") =>
            /\ events' = events
            /\ Len(scheduled') <= 1
            /\ ((/\ \E e \in events : e.id = last'.event /\ e.status = "FAILURE"
                                         /\ e.webhook \in DOMAIN webhooks
                                         /\ webhooks[e.webhook].active)
                 => /\ last'.dispatched
                    /\ \E e \in events' : e.id = last'.event /\ e.status = "FAILURE"
                                          /\ e.webhook \in DOMAIN webhooks'
                                          /\ webhooks'[e.webhook].active)]_vars

\* a retry made a day in, of an event that may be retried, was handed to the
\* dispatcher and returned, and the event records are all as at the start
C25_Witness ==
    /\ IsRetry
    /\ RetryAllowed
    /\ last.dispatched
    /\ last.result = "returned"
    /\ last.at = Day
    /\ events = EventsAtStart
    /\ RetriedEvent.status = "FAILURE"

====
